---- MODULE Spec2Model ----
(***************************************************************************)
(* Model of point_cloud_colorize/las_colorize.py: process_files walks an   *)
(* input file or directory, derives an output path per LAS/LAZ file and    *)
(* hands a PDAL pipeline document to the engine (validate, then execute).  *)
(*                                                                         *)
(* Text (file names, JSON) is a sequence of one-character strings; a       *)
(* longer string inside a text stands for a run of ordinary characters     *)
(* that carry no meaning for pathlib or JSON (no dot, quote, backslash,    *)
(* slash, brace, bracket, colon or comma that matters).                    *)
(*                                                                         *)
(* An invocation of process_files is identified by its verbose flag, so    *)
(* the per-invocation state is a function over BOOLEAN.  Spec runs one     *)
(* invocation; SpecPair runs the verbose and the quiet invocation on the   *)
(* same arguments, directory listing and engine behaviour; SpecJson runs   *)
(* one invocation with one of the eight WMS/SRS arguments set to any short *)
(* string over letters, the double quote and the backslash.                *)
(***************************************************************************)
EXTENDS Integers, Sequences, FiniteSets, TLC

\* Largest number of entries the input directory holds.
MaxEntries == 2

(***************************************************************************)
(* File names and paths.  A path is the sequence of its components.        *)
(***************************************************************************)
N_in == <<"i", "n">>
N_out == <<"o", "u", "t">>
N_out_las == <<"o", "u", "t", ".", "l", "a", "s">>
N_a_las == <<"a", ".", "l", "a", "s">>
N_a_color_las == <<"a", "_", "c", "o", "l", "o", "r", ".", "l", "a", "s">>
N_b_laz == <<"b", ".", "l", "a", "z">>
N_c_LAS == <<"c", ".", "L", "A", "S">>
N_dot_las == <<".", "l", "a", "s">>

InDir == <<N_in>>
OutDir == <<N_out>>
OutLas == <<N_out_las>>

\* Names a directory entry may have.
EntryNames == {N_a_las, N_a_color_las, N_b_laz, N_c_LAS, N_dot_las}
\* Names of the input when it is a single file.
FileNames == {N_a_las, N_c_LAS}
InputPaths == {InDir} \cup {Append(InDir, n) : n \in FileNames}
OutputPaths == {InDir, OutDir, OutLas, Append(InDir, N_a_las)}
\* The directories that may exist; the input directory always does.
DirSets == {{InDir, OutDir}, {InDir, OutLas}}

NoPath == <<>>

\* pathlib: PurePath.name, the last component.
Name(p) == p[Len(p)]

\* str.rfind('.') on a name, 1-based; 0 when there is no dot.
RFindDot(n) ==
    LET dots == {i \in 1..Len(n) : n[i] = "."}
    IN  IF dots = {} THEN 0 ELSE CHOOSE i \in dots : \A j \in dots : j <= i

\* pathlib: PurePath.suffix: the part of the name from its last dot, unless
\* the dot is the first or the last character of the name.
Suffix(p) ==
    LET n == Name(p)
        i == RFindDot(n)
    IN  IF 1 < i /\ i < Len(n) THEN SubSeq(n, i, Len(n)) ELSE <<>>

\* pathlib: PurePath.stem: the name without its suffix.
Stem(p) ==
    LET n == Name(p)
        i == RFindDot(n)
    IN  IF 1 < i /\ i < Len(n) THEN SubSeq(n, 1, i - 1) ELSE n

\* f.suffix == '.las' or f.suffix == '.laz' compared case-insensitively.
IsLasSuffixAnyCase(s) ==
    s \in {<<".", "l", "a", "s">>, <<".", "l", "a", "z">>,
           <<".", "L", "A", "S">>, <<".", "L", "A", "Z">>}

\* f.suffix == '.las' or f.suffix == '.laz'
IsLasSuffix(s) ==
    s = <<".", "l", "a", "s">> \/ s = <<".", "l", "a", "z">>

\* '{}_color{}'.format(f.stem, f.suffix)
ColorName(p) == Stem(p) \o <<"_", "c", "o", "l", "o", "r">> \o Suffix(p)

\* output_path / name
Join(dir, n) == Append(dir, n)

(***************************************************************************)
(* JSON text: json.dumps, the quote escaping of run_pdal, the pipeline     *)
(* template, and the reading of a JSON document.                           *)
(***************************************************************************)
\* Longest string tried as an argument value.
MaxStrLen == 2

Quote == "\""
Backslash == "\\"
LineFeed == "\n"

\* Characters an argument value is made of.
StrAlphabet == {"a", "n", Quote, Backslash}

Texts(n) == UNION {[1..k -> StrAlphabet] : k \in 0..n}

Str(text) == [t |-> "str", s |-> text]
Num(text) == [t |-> "num", s |-> <<text>>]

\* The keys of the pdalargs dictionary, in insertion order (lines 68-75).
Fields == <<"wms_url", "wms_layer", "wms_srs", "wms_version", "wms_format",
            "wms_pixel_size", "wms_max_image_size", "las_srs">>

\* The argparse defaults (lines 184-226).
DefaultArgs ==
    [las_srs |-> Str(<<"EPSG:28992">>),
     wms_url |-> Str(<<"https://geodata.nationaalgeoregister.nl/luchtfoto/rgb/wms?">>),
     wms_layer |-> Str(<<"Actueel_ortho25">>),
     wms_srs |-> Str(<<"EPSG:28992">>),
     wms_format |-> Str(<<"image/png">>),
     wms_version |-> Str(<<"1.3.0">>),
     wms_pixel_size |-> Num("0.25"),
     wms_max_image_size |-> Num("1000")]

\* The concatenation of a sequence of texts.
RECURSIVE Flatten(_)
Flatten(parts) ==
    IF Len(parts) = 0 THEN <<>>
    ELSE IF Len(parts) = 1 THEN parts[1]
    ELSE LET half == Len(parts) \div 2
         IN  Flatten(SubSeq(parts, 1, half))
             \o Flatten(SubSeq(parts, half + 1, Len(parts)))

\* json.dumps of a string: quote and backslash get a backslash in front.
DumpsStr(text) ==
    <<Quote>>
    \o Flatten([i \in 1..Len(text) |->
           IF text[i] = Quote \/ text[i] = Backslash
           THEN <<Backslash, text[i]>> ELSE <<text[i]>>])
    \o <<Quote>>

DumpsValue(val) == IF val.t = "str" THEN DumpsStr(val.s) ELSE val.s

\* json.dumps of the pdalargs dictionary, with ', ' and ': ' separators.
Dumps(a) ==
    <<"{">>
    \o Flatten([i \in 1..Len(Fields) |->
           (IF i = 1 THEN <<>> ELSE <<",", " ">>)
           \o <<Quote, Fields[i], Quote, ":", " ">> \o DumpsValue(a[Fields[i]])])
    \o <<"}">>

\* str.replace('"', '\\"')
ReplaceQuotes(text) ==
    Flatten([i \in 1..Len(text) |->
        IF text[i] = Quote THEN <<Backslash, Quote>> ELSE <<text[i]>>])

\* Line 76: json.dumps(pdalargs).replace('"', '\\"')
PdalArgsStr(a) == ReplaceQuotes(Dumps(a))

\* Path.as_posix(): the components joined by slashes.
RECURSIVE AsPosix(_)
AsPosix(p) ==
    IF Len(p) = 1 THEN p[1]
    ELSE AsPosix(SubSeq(p, 1, Len(p) - 1)) \o <<"/">> \o p[Len(p)]

\* Path(__file__).parent.as_posix()
ScriptDir == <<"point_cloud_colorize">>

Lit(word) == <<Quote, word, Quote>>
Interpolated(text) == <<Quote>> \o text \o <<Quote>>
Sep == <<":", " ">>
Nl == <<LineFeed, " ">>

\* Lines 15-34 and 79-83: PDAL_PIPELINE.format(...).
PipelineJson(input_file, output_file, srs, pdalargs, directory) ==
    <<"{">> \o Nl \o Lit("pipeline") \o <<":", "[">> \o Nl
    \o <<"{">> \o Nl
    \o Lit("type") \o Sep \o Lit("readers.las") \o <<",">> \o Nl
    \o Lit("filename") \o Sep \o Interpolated(input_file) \o Nl
    \o <<"}", ",">> \o Nl
    \o <<"{">> \o Nl
    \o Lit("type") \o Sep \o Lit("filters.python") \o <<",">> \o Nl
    \o Lit("script") \o Sep
        \o Interpolated(directory \o <<"/", "pdal_colorize.py">>) \o <<",">> \o Nl
    \o Lit("function") \o Sep \o Lit("las_colorize") \o <<",">> \o Nl
    \o Lit("module") \o Sep \o Lit("anything") \o <<",">> \o Nl
    \o Lit("pdalargs") \o Sep \o Interpolated(pdalargs) \o Nl
    \o <<"}", ",">> \o Nl
    \o <<"{">> \o Nl
    \o Lit("type") \o Sep \o Lit("writers.las") \o <<",">> \o Nl
    \o Lit("a_srs") \o Sep \o Interpolated(srs) \o <<",">> \o Nl
    \o Lit("filename") \o Sep \o Interpolated(output_file) \o Nl
    \o <<"}">> \o Nl
    \o <<"]">> \o Nl \o <<"}">>

\* Lines 68-84: the document run_pdal hands to pdal.Pipeline.
RunPdalPipeline(input_path, output_path, a) ==
    PipelineJson(AsPosix(input_path), AsPosix(output_path), a.las_srs.s,
                 PdalArgsStr(a), ScriptDir)

NoPipeline == <<>>

(***************************************************************************)
(* State.                                                                  *)
(***************************************************************************)
VARIABLES
    inputPath,   \* argument input_path
    outputPath,  \* argument output_path
    dirs,        \* the paths that are directories (Path.is_dir)
    listing,     \* what input_path.iterdir() yields, in its order
    engine,      \* what the engine does with the pipeline of each input file
    args,        \* the eight WMS/SRS arguments
    pipeline_json, \* per invocation: the document given to pdal.Pipeline
    pc,          \* per invocation: where process_files is
    idx,         \* per invocation: next position of the iteration
    task,        \* per invocation: the (input, output) pair given to run_pdal
    trace,       \* per invocation: lines printed and engine calls, in order
    written,     \* per invocation: output files the engine wrote, in order
    err          \* per invocation: the exception that ended it

vars == <<inputPath, outputPath, dirs, listing, engine, args,
          pipeline_json, pc, idx, task, trace, written, err>>

Outcomes == {"ok", "validate_fails", "execute_fails"}

NoTask == [src |-> NoPath, dst |-> NoPath]

is_dir(p) == p \in dirs

\* The sequences over S without repetition, of length at most n.
RECURSIVE Listings(_, _)
Listings(S, n) ==
    IF n = 0 THEN {<<>>}
    ELSE LET shorter == Listings(S, n - 1)
         IN  shorter \cup
             {Append(l, x) : l \in {m \in shorter : Len(m) = n - 1}, x \in S}

Injective(l) == \A i, j \in 1..Len(l) : l[i] = l[j] => i = j

\* The files whose pipelines the engine may be asked to run.
TaskInputs(inp, ds, l) ==
    IF inp \in ds
    THEN {Join(inp, l[i]) : i \in {j \in 1..Len(l) : IsLasSuffix(Suffix(<<l[j]>>))}}
    ELSE {inp}

Event(kind, src, dst, ok) == [ev |-> kind, src |-> src, dst |-> dst, ok |-> ok]

InitRun ==
    /\ idx = [v \in BOOLEAN |-> 1]
    /\ task = [v \in BOOLEAN |-> NoTask]
    /\ trace = [v \in BOOLEAN |-> <<>>]
    /\ written = [v \in BOOLEAN |-> <<>>]
    /\ err = [v \in BOOLEAN |-> "none"]
    /\ pipeline_json = [v \in BOOLEAN |-> NoPipeline]

\* Any paths, listing and engine behaviour, with the default WMS arguments.
InitArgs ==
    /\ args = DefaultArgs
    /\ inputPath \in InputPaths
    /\ outputPath \in OutputPaths
    /\ dirs \in DirSets
    /\ listing \in IF inputPath \in dirs
                   THEN {l \in Listings(EntryNames, MaxEntries) : Injective(l)}
                   ELSE {<<>>}
    /\ engine \in [TaskInputs(inputPath, dirs, listing) -> Outcomes]
    /\ InitRun

\* One call of process_files, with verbose set or not.
Init ==
    /\ InitArgs
    /\ \E w \in BOOLEAN : pc = [v \in BOOLEAN |-> IF v = w THEN "start" ELSE "off"]

\* Two calls on the same arguments, one verbose and one not.
InitPair ==
    /\ InitArgs
    /\ pc = [v \in BOOLEAN |-> "start"]

\* One call on a directory with one LAS file, or on that file, with any one
\* of the eight arguments set to any short string.
InitJson ==
    /\ args \in {[DefaultArgs EXCEPT ![Fields[i]] = Str(x)] :
                    i \in 1..Len(Fields), x \in Texts(MaxStrLen)}
    /\ inputPath \in {InDir, Append(InDir, N_a_las)}
    /\ outputPath = OutDir
    /\ dirs = {InDir, OutDir}
    /\ listing = IF inputPath \in dirs THEN <<N_a_las>> ELSE <<>>
    /\ engine = [f \in TaskInputs(inputPath, dirs, listing) |-> "ok"]
    /\ InitRun
    /\ pc = [v \in BOOLEAN |-> IF v THEN "off" ELSE "start"]

(***************************************************************************)
(* process_files                                                           *)
(***************************************************************************)
\* The lines printed ahead of a task with the destination line left out.
PrintedSourceOnly(v, src, dst) ==
    IF v THEN <<Event("Colorizing", src, NoPath, TRUE)>> ELSE <<>>

\* Lines 136-138, 144-149, 158-159: the lines printed ahead of a task when
\* verbose: the source, then the destination.
Printed(v, src, dst) ==
    IF v THEN <<Event("Colorizing", src, NoPath, TRUE),
                Event("Saving", NoPath, dst, TRUE)>>
    ELSE <<>>

\* The single-file branch with the directory test made first.
FileOutputDirFirst ==
    IF is_dir(outputPath) THEN Join(outputPath, ColorName(inputPath))
    ELSE IF IsLasSuffix(Suffix(outputPath)) THEN outputPath
    ELSE NoPath

\* The single-file branch that takes any output path as it is.
FileOutputUnchecked ==
    IF is_dir(outputPath) /\ ~IsLasSuffix(Suffix(outputPath))
    THEN Join(outputPath, ColorName(inputPath))
    ELSE outputPath

\* Lines 147-166: the output file of a single-file input; NoPath when the
\* output path is neither a LAS/LAZ path nor a directory.
FileOutput ==
    IF IsLasSuffix(Suffix(outputPath)) THEN outputPath
    ELSE IF is_dir(outputPath) THEN Join(outputPath, ColorName(inputPath))
    ELSE NoPath

\* Lines 123-126 and 143-166: the test of the input path, and the whole
\* single-file branch up to the engine calls of run_pdal.
Start(v) ==
    /\ pc[v] = "start"
    /\ IF is_dir(inputPath)
       THEN /\ pc' = [pc EXCEPT ![v] = "iter"]
            /\ UNCHANGED <<task, trace, err, pipeline_json>>
       ELSE LET out == FileOutput
                head == IF v THEN <<Event("Colorizing", inputPath, NoPath, TRUE)>>
                        ELSE <<>>
            IN  IF out # NoPath
                THEN /\ trace' = [trace EXCEPT ![v] = Printed(v, inputPath, out)]
                     /\ task' = [task EXCEPT ![v] = [src |-> inputPath, dst |-> out]]
                     /\ pipeline_json' = [pipeline_json EXCEPT
                           ![v] = RunPdalPipeline(inputPath, out, args)]
                     /\ pc' = [pc EXCEPT ![v] = "validate"]
                     /\ UNCHANGED err
                ELSE /\ trace' = [trace EXCEPT ![v] = head]
                     /\ err' = [err EXCEPT ![v] = "ValueError"]
                     /\ pc' = [pc EXCEPT ![v] = "error"]
                     /\ UNCHANGED <<task, pipeline_json>>
    /\ UNCHANGED <<inputPath, outputPath, dirs, listing, engine, args, idx, written>>

\* Lines 127-142: one round of the loop over iterdir(), up to the engine
\* calls of run_pdal.
DirNext(v) ==
    /\ pc[v] = "iter"
    /\ IF idx[v] > Len(listing)
       THEN /\ pc' = [pc EXCEPT ![v] = "done"]
            /\ UNCHANGED <<idx, task, trace, err, pipeline_json>>
       ELSE LET f == Join(inputPath, listing[idx[v]])
                out == Join(outputPath, ColorName(f))
            IN  /\ idx' = [idx EXCEPT ![v] = @ + 1]
                /\ IF ~IsLasSuffix(Suffix(f))
                   THEN UNCHANGED <<pc, task, trace, err, pipeline_json>>
                   ELSE IF is_dir(outputPath)
                   THEN /\ trace' = [trace EXCEPT ![v] = @ \o Printed(v, f, out)]
                        /\ task' = [task EXCEPT ![v] = [src |-> f, dst |-> out]]
                        /\ pipeline_json' = [pipeline_json EXCEPT
                              ![v] = RunPdalPipeline(f, out, args)]
                        /\ pc' = [pc EXCEPT ![v] = "validate"]
                        /\ UNCHANGED err
                   ELSE /\ err' = [err EXCEPT ![v] = "ValueError"]
                        /\ pc' = [pc EXCEPT ![v] = "error"]
                        /\ UNCHANGED <<task, trace, pipeline_json>>
    /\ UNCHANGED <<inputPath, outputPath, dirs, listing, engine, args, written>>

(***************************************************************************)
(* run_pdal: the engine calls                                              *)
(***************************************************************************)
\* validate() whose failure is swallowed.
ValidateSwallow(v) ==
    /\ pc[v] = "validate"
    /\ LET ok == engine[task[v].src] # "validate_fails"
       IN  /\ trace' = [trace EXCEPT
                 ![v] = Append(@, Event("validate", task[v].src, task[v].dst, ok))]
           /\ pc' = [pc EXCEPT ![v] = "execute"]
           /\ UNCHANGED err
    /\ UNCHANGED <<inputPath, outputPath, dirs, listing, engine, args, pipeline_json,
                   idx, task, written>>

\* Line 85: pipeline.validate(); its exception leaves process_files.
Validate(v) ==
    /\ pc[v] = "validate"
    /\ LET ok == engine[task[v].src] # "validate_fails"
       IN  /\ trace' = [trace EXCEPT
                 ![v] = Append(@, Event("validate", task[v].src, task[v].dst, ok))]
           /\ IF ok
              THEN /\ pc' = [pc EXCEPT ![v] = "execute"]
                   /\ UNCHANGED err
              ELSE /\ pc' = [pc EXCEPT ![v] = "error"]
                   /\ err' = [err EXCEPT ![v] = "EngineError"]
    /\ UNCHANGED <<inputPath, outputPath, dirs, listing, engine, args, pipeline_json,
                   idx, task, written>>

\* execute() whose failure lets the loop go on with the next entry.
ExecuteContinue(v) ==
    /\ pc[v] = "execute"
    /\ LET ok == engine[task[v].src] = "ok"
       IN  /\ trace' = [trace EXCEPT
                 ![v] = Append(@, Event("execute", task[v].src, task[v].dst, ok))]
           /\ written' = [written EXCEPT ![v] = Append(@, task[v].dst)]
           /\ pc' = [pc EXCEPT ![v] = IF is_dir(inputPath) THEN "iter" ELSE "done"]
           /\ UNCHANGED err
    /\ UNCHANGED <<inputPath, outputPath, dirs, listing, engine, args, pipeline_json,
                   idx, task>>

\* Line 86: pipeline.execute(), which writes the output file, and the return
\* to process_files.  A failing execute() may leave a partial output file.
Execute(v) ==
    /\ pc[v] = "execute"
    /\ LET ok == engine[task[v].src] = "ok"
       IN  /\ trace' = [trace EXCEPT
                 ![v] = Append(@, Event("execute", task[v].src, task[v].dst, ok))]
           /\ IF ok
              THEN /\ written' = [written EXCEPT ![v] = Append(@, task[v].dst)]
                   /\ pc' = [pc EXCEPT
                         ![v] = IF is_dir(inputPath) THEN "iter" ELSE "done"]
                   /\ UNCHANGED err
              ELSE /\ written' \in {written,
                                    [written EXCEPT ![v] = Append(@, task[v].dst)]}
                   /\ pc' = [pc EXCEPT ![v] = "error"]
                   /\ err' = [err EXCEPT ![v] = "EngineError"]
    /\ UNCHANGED <<inputPath, outputPath, dirs, listing, engine, args, pipeline_json,
                   idx, task>>

Next ==
    \E v \in BOOLEAN :
        \/ Start(v)
        \/ DirNext(v)
        \/ Validate(v)
        \/ Execute(v)

Spec == Init /\ [][Next]_vars

SpecPair == InitPair /\ [][Next]_vars

SpecJson == InitJson /\ [][Next]_vars

(***************************************************************************)
(* Properties.                                                             *)
(***************************************************************************)
LasSuffixes == {<<".", "l", "a", "s">>, <<".", "l", "a", "z">>}

IsEngine(e) == e.ev \in {"validate", "execute"}
IsPrint(e) == e.ev \in {"Colorizing", "Saving"}

\* The engine calls of an invocation, in order.
Calls(v) == SelectSeq(trace[v], IsEngine)

Count(t, kind) == Cardinality({i \in 1..Len(t) : t[i].ev = kind})

Finished(v) == pc[v] \in {"done", "error"}

\* Positions of the directory listing whose extension is .las or .laz.
Matching == {i \in 1..Len(listing) : Suffix(<<listing[i]>>) \in LasSuffixes}

IsPrefix(s, t) == Len(s) <= Len(t) /\ SubSeq(t, 1, Len(s)) = s

\* C1: once the engine's validate() or execute() fails for a task, that call
\* is the last engine call of the run, the run has ended in the error state
\* with the engine's failure, and no task is ever handed to the engine twice.
C1_AbortOnEngineFailure ==
    \A v \in BOOLEAN :
        LET t == trace[v]
        IN  /\ \A i \in 1..Len(t) :
                   (IsEngine(t[i]) /\ ~t[i].ok) =>
                       /\ i = Len(t)
                       /\ pc[v] = "error"
                       /\ err[v] = "EngineError"
            /\ \A i, j \in 1..Len(t) :
                   (IsEngine(t[i]) /\ t[i].ev = t[j].ev /\ t[i].src = t[j].src)
                       => i = j

\* C1 witness: a directory with two LAS/LAZ entries, the first task's
\* validate() failed and the run is over.
C1_Witness ==
    \E v \in BOOLEAN :
        /\ is_dir(inputPath) /\ Cardinality(Matching) = 2
        /\ pc[v] = "error" /\ err[v] = "EngineError"
        /\ Count(trace[v], "validate") = 1
        /\ Count(trace[v], "execute") = 0

\* C2: with a directory as input and an output path that is no directory, a
\* finished run has always ended with ValueError and without any engine call.
C2_NonDirOutputAlwaysRaises ==
    \A v \in BOOLEAN :
        (is_dir(inputPath) /\ ~is_dir(outputPath) /\ Finished(v)) =>
            /\ pc[v] = "error" /\ err[v] = "ValueError"
            /\ Calls(v) = <<>>

\* C3: every (input, output) pair handed to the engine has an output path
\* ending in .las or .laz that differs from the input path.
C3_OutputIsLasAndNotInput ==
    \A v \in BOOLEAN :
        \A i \in 1..Len(trace[v]) :
            IsEngine(trace[v][i]) =>
                /\ Suffix(trace[v][i].dst) \in LasSuffixes
                /\ trace[v][i].dst # trace[v][i].src

\* C4: for a single-file input, an output path with extension .las or .laz is
\* used verbatim, whether or not it is a directory; otherwise an output path
\* that is a directory gives <output>/<stem>_color<ext>; every engine call is
\* made for the input and that path, and there is exactly one invocation.
C4_SingleFileOutput ==
    \A v \in BOOLEAN :
        LET verbatim == Suffix(outputPath) \in LasSuffixes
            expected ==
                IF verbatim THEN outputPath
                ELSE Append(outputPath,
                            Stem(inputPath) \o <<"_", "c", "o", "l", "o", "r">>
                                \o Suffix(inputPath))
        IN  (~is_dir(inputPath) /\ (verbatim \/ outputPath \in dirs)) =>
                /\ \A i \in 1..Len(trace[v]) :
                       IsEngine(trace[v][i]) =>
                           /\ trace[v][i].src = inputPath
                           /\ trace[v][i].dst = expected
                /\ Count(trace[v], "validate") <= 1
                /\ Count(trace[v], "execute") <= 1
                /\ Finished(v) => Count(trace[v], "validate") = 1
                /\ pc[v] = "done" => written[v] = <<expected>>

\* C4 witness: a single file was written to an output path with extension
\* .las that is itself a directory.
C4_Witness ==
    \E v \in BOOLEAN :
        /\ ~is_dir(inputPath) /\ outputPath = OutLas /\ is_dir(OutLas)
        /\ pc[v] = "done"

\* C5: for a single-file input whose output path has no .las/.laz extension
\* and is no directory, the call ends with ValueError as its first step and
\* the engine is never called.
C5_SingleFileBadOutput ==
    \A v \in BOOLEAN :
        (/\ ~is_dir(inputPath)
         /\ Suffix(outputPath) \notin LasSuffixes
         /\ outputPath \notin dirs
         /\ pc[v] \notin {"off", "start"}) =>
            /\ pc[v] = "error" /\ err[v] = "ValueError"
            /\ Calls(v) = <<>>
            /\ written[v] = <<>>

\* C5 witness: such a call has ended.
C5_Witness ==
    \E v \in BOOLEAN :
        /\ ~is_dir(inputPath) /\ outputPath = OutDir /\ ~is_dir(OutDir)
        /\ pc[v] = "error"

\* C6: with directories as input and output and an engine that never fails,
\* a finished run has made one validate and one execute call for each entry
\* whose extension is exactly .las or .laz, and none for any other entry.
C6_OneTaskPerMatchingEntry ==
    \A v \in BOOLEAN :
        (/\ is_dir(inputPath) /\ is_dir(outputPath)
         /\ \A f \in DOMAIN engine : engine[f] = "ok"
         /\ Finished(v)) =>
            LET t == trace[v]
            IN  /\ pc[v] = "done"
                /\ Count(t, "validate") = Cardinality(Matching)
                /\ Count(t, "execute") = Cardinality(Matching)
                /\ \A k \in Matching :
                       Cardinality({i \in 1..Len(t) :
                           /\ t[i].ev = "execute"
                           /\ t[i].src = Append(inputPath, listing[k])}) = 1
                /\ \A i \in 1..Len(t) :
                       IsEngine(t[i]) =>
                           \E k \in Matching : t[i].src = Append(inputPath, listing[k])

\* C6 witness: a finished run over a directory holding a .las entry and an
\* entry with extension .LAS.
C6_Witness ==
    \E v \in BOOLEAN :
        /\ is_dir(inputPath) /\ is_dir(outputPath)
        /\ pc[v] = "done"
        /\ Cardinality(Matching) = 1
        /\ \E i \in 1..Len(listing) : listing[i] = N_c_LAS
        /\ Count(trace[v], "execute") = 1

(***************************************************************************)
(* Reading JSON text (RFC 8259), as the engine reads the pipeline document *)
(* and the colorize script reads the pdalargs string.                      *)
(***************************************************************************)
Invalid == [t |-> "invalid"]
Failed == [ok |-> FALSE]
Parsed(val, next) == [ok |-> TRUE, val |-> val, next |-> next]

Whitespace == {" ", LineFeed}
NumberTexts == {"0.25", "1000"}

RECURSIVE SkipWs(_, _)
SkipWs(s, i) ==
    IF i <= Len(s) /\ s[i] \in Whitespace THEN SkipWs(s, i + 1) ELSE i

\* The character an escape sequence stands for; "" when there is none.  Of
\* the letters that form an escape only n occurs in the texts tried here.
Unescaped(c) ==
    IF c \in {Quote, Backslash, "/"} THEN c
    ELSE IF c = "n" THEN LineFeed
    ELSE ""

\* The number of backslashes in a row that end just before position j of a
\* string literal whose text starts at position i.
BackslashRun(s, i, j) ==
    CHOOSE k \in 0..(j - i) :
        /\ \A m \in (j - k)..(j - 1) : s[m] = Backslash
        /\ k = j - i \/ s[j - k - 1] # Backslash

\* Position j of the literal is the character of an escape sequence.
Escaped(s, i, j) == BackslashRun(s, i, j) % 2 = 1

\* A string literal from the position after its opening quote: it ends at
\* the first quote that is not escaped.
ParseString(s, i) ==
    LET ends == {j \in i..Len(s) : s[j] = Quote /\ ~Escaped(s, i, j)}
    IN  IF ends = {} THEN Failed
        ELSE LET end == CHOOSE j \in ends : \A k \in ends : j <= k
                 chars == [k \in 1..(end - i) |->
                     LET j == i + k - 1
                     IN  IF Escaped(s, i, j)
                         THEN IF Unescaped(s[j]) = "" THEN "bad" ELSE Unescaped(s[j])
                         ELSE IF s[j] = Backslash THEN ""
                         ELSE IF s[j] = LineFeed THEN "bad"
                         ELSE s[j]]
                 Kept(c) == c # ""
             IN  IF \E k \in 1..(end - i) : chars[k] = "bad" THEN Failed
                 ELSE Parsed(Str(SelectSeq(chars, Kept)), end + 1)

RECURSIVE ParseValue(_, _)
RECURSIVE ParseMembers(_, _, _)
RECURSIVE ParseElements(_, _, _)

\* The members of an object from the position of a key's opening quote.
ParseMembers(s, i, acc) ==
    IF i > Len(s) \/ s[i] # Quote THEN Failed
    ELSE LET key == ParseString(s, i + 1)
         IN  IF ~key.ok THEN Failed
             ELSE LET c == SkipWs(s, key.next)
                  IN  IF c > Len(s) \/ s[c] # ":" THEN Failed
                      ELSE LET val == ParseValue(s, c + 1)
                           IN  IF ~val.ok THEN Failed
                               ELSE LET e == SkipWs(s, val.next)
                                        all == Append(acc, <<key.val.s, val.val>>)
                                    IN  IF e > Len(s) THEN Failed
                                        ELSE IF s[e] = "}"
                                        THEN Parsed([t |-> "obj", m |-> all], e + 1)
                                        ELSE IF s[e] = ","
                                        THEN ParseMembers(s, SkipWs(s, e + 1), all)
                                        ELSE Failed

\* The elements of an array from the position of an element.
ParseElements(s, i, acc) ==
    LET val == ParseValue(s, i)
    IN  IF ~val.ok THEN Failed
        ELSE LET e == SkipWs(s, val.next)
                 all == Append(acc, val.val)
             IN  IF e > Len(s) THEN Failed
                 ELSE IF s[e] = "]" THEN Parsed([t |-> "arr", e |-> all], e + 1)
                 ELSE IF s[e] = "," THEN ParseElements(s, e + 1, all)
                 ELSE Failed

ParseValue(s, i) ==
    LET b == SkipWs(s, i)
    IN  IF b > Len(s) THEN Failed
        ELSE IF s[b] = Quote THEN ParseString(s, b + 1)
        ELSE IF s[b] \in NumberTexts THEN Parsed(Num(s[b]), b + 1)
        ELSE IF s[b] = "{"
        THEN LET c == SkipWs(s, b + 1)
             IN  IF c <= Len(s) /\ s[c] = "}"
                 THEN Parsed([t |-> "obj", m |-> <<>>], c + 1)
                 ELSE ParseMembers(s, c, <<>>)
        ELSE IF s[b] = "["
        THEN LET c == SkipWs(s, b + 1)
             IN  IF c <= Len(s) /\ s[c] = "]"
                 THEN Parsed([t |-> "arr", e |-> <<>>], c + 1)
                 ELSE ParseElements(s, c, <<>>)
        ELSE Failed

\* json.loads: the value of a whole document, Invalid when it is not JSON.
Loads(s) ==
    LET r == ParseValue(s, 1)
    IN  IF r.ok /\ SkipWs(s, r.next) = Len(s) + 1 THEN r.val ELSE Invalid

\* The value of a key of an object (the last one when repeated); Invalid when
\* the value is no object or lacks the key.
Get(obj, key) ==
    IF obj.t # "obj" THEN Invalid
    ELSE LET at == {i \in 1..Len(obj.m) : obj.m[i][1] = <<key>>}
         IN  IF at = {} THEN Invalid
             ELSE obj.m[CHOOSE i \in at : \A j \in at : j <= i][2]

\* The pdalargs string of the filters.python stage of a pipeline document.
PdalArgsOf(doc) ==
    LET stages == Get(doc, "pipeline")
    IN  IF stages.t # "arr" \/ Len(stages.e) < 2 THEN Invalid
        ELSE Get(stages.e[2], "pdalargs")

\* C7: the document handed to the engine is valid JSON, and its pdalargs
\* string, read as JSON, is an object of exactly the eight fields with the
\* values the caller passed.
C7_PdalArgsRoundTrip ==
    \A v \in BOOLEAN :
        pipeline_json[v] # NoPipeline =>
            LET doc == Loads(pipeline_json[v])
                lit == PdalArgsOf(doc)
                bundle == IF lit.t = "str" THEN Loads(lit.s) ELSE Invalid
            IN  /\ doc.t = "obj"
                /\ lit.t = "str"
                /\ bundle.t = "obj"
                /\ Len(bundle.m) = Len(Fields)
                /\ \A i \in 1..Len(Fields) : Get(bundle, Fields[i]) = args[Fields[i]]

\* C8: every execute() call directly follows the successful validate() call
\* of the same task; no task is validated or executed twice; each
\* successful execute() wrote its output file exactly once; and the output
\* file of a task whose validate() failed was not written.
C8_ValidateThenExecute ==
    \A v \in BOOLEAN :
        LET t == trace[v]
            writes(p) == Cardinality({k \in 1..Len(written[v]) : written[v][k] = p})
        IN  /\ \A i \in 1..Len(t) :
                   t[i].ev = "execute" =>
                       /\ i > 1
                       /\ t[i - 1] = Event("validate", t[i].src, t[i].dst, TRUE)
            /\ \A i, j \in 1..Len(t) :
                   (IsEngine(t[i]) /\ t[i].ev = t[j].ev /\ t[i].src = t[j].src)
                       => i = j
            /\ \A i \in 1..Len(t) :
                   (t[i].ev = "execute" /\ t[i].ok) => writes(t[i].dst) = 1
            /\ \A i \in 1..Len(t) :
                   (t[i].ev = "validate" /\ ~t[i].ok) =>
                       /\ writes(t[i].dst) = 0
                       /\ \A j \in 1..Len(t) :
                              t[j].ev = "execute" => t[j].src # t[i].src
            /\ Len(written[v]) <= Count(t, "execute")

\* C8 witness: the second task's validate() failed after the first task was
\* executed and its output written.
C8_Witness ==
    \E v \in BOOLEAN :
        /\ Len(written[v]) = 1
        /\ Count(trace[v], "validate") = 2
        /\ Count(trace[v], "execute") = 1
        /\ pc[v] = "error"

\* C9 as stated: for every task the verbose invocation has finished, a line
\* naming its source or destination was printed before its engine calls and
\* another one after them.
C9_LineBeforeAndAfterEachTask ==
    LET t == trace[TRUE]
    IN  \A i \in 1..Len(t) :
            (t[i].ev = "execute" /\ pc[TRUE] \in {"iter", "done"}) =>
                /\ \E j \in 1..(i - 1) :
                       /\ IsPrint(t[j])
                       /\ (t[j].src = t[i].src \/ t[j].dst = t[i].dst)
                /\ \E j \in (i + 1)..Len(t) :
                       /\ IsPrint(t[j])
                       /\ (t[j].src = t[i].src \/ t[j].dst = t[i].dst)

\* C9 amended: the verbose invocation prints the source line and then the
\* destination line directly before each validate() call and no line
\* directly after an engine call other than the source line of the next
\* task; the quiet invocation prints nothing; and the two invocations make
\* the same engine calls and end the same way.
C9_LinesBeforeEachTask ==
    LET t == trace[TRUE]
        last == Len(t)
    IN  /\ \A i \in 1..last :
               t[i].ev = "validate" =>
                   /\ i > 2
                   /\ t[i - 2] = Event("Colorizing", t[i].src, NoPath, TRUE)
                   /\ t[i - 1] = Event("Saving", NoPath, t[i].dst, TRUE)
        /\ \A i \in 1..last :
               t[i].ev = "Saving" =>
                   IF i = last THEN pc[TRUE] = "validate"
                   ELSE t[i + 1].ev = "validate"
        /\ \A i \in 1..last :
               t[i].ev = "Colorizing" =>
                   IF i = last THEN pc[TRUE] = "error" /\ err[TRUE] = "ValueError"
                   ELSE t[i + 1].ev = "Saving"
        /\ \A i \in 1..Len(trace[FALSE]) : IsEngine(trace[FALSE][i])
        /\ IsPrefix(Calls(TRUE), Calls(FALSE)) \/ IsPrefix(Calls(FALSE), Calls(TRUE))
        /\ (Finished(TRUE) /\ Finished(FALSE)) =>
               /\ Calls(TRUE) = Calls(FALSE)
               /\ pc[TRUE] = pc[FALSE]
               /\ err[TRUE] = err[FALSE]

\* C9 witness: both invocations have finished a run of two tasks.
C9_Witness ==
    /\ pc[TRUE] = "done" /\ pc[FALSE] = "done"
    /\ Count(trace[TRUE], "execute") = 2
    /\ Count(trace[FALSE], "execute") = 2
    /\ Count(trace[TRUE], "Saving") = 2

\* C10: in directory mode no engine call has an output path that is the path
\* of a .las/.laz entry of the input directory, and no task reads a file
\* that an earlier task of the run wrote.
C10_NoOutputIsAnInput ==
    \A v \in BOOLEAN :
        is_dir(inputPath) =>
            LET t == trace[v]
            IN  /\ \A i \in 1..Len(t) :
                       IsEngine(t[i]) =>
                           \A k \in Matching : t[i].dst # Append(inputPath, listing[k])
                /\ \A i, j \in 1..Len(t) :
                       (i < j /\ t[i].ev = "execute" /\ IsEngine(t[j])) =>
                           t[j].src # t[i].dst
                /\ Count(t, "validate") <= Cardinality(Matching)

====
